---- MODULE Spec2Model ----
(***************************************************************************)
(* dotawatcher: the watcher-task lifecycle (Handler::ready), the Steam     *)
(* poller (steamwatcher_loop), the match poller (dotawatcher_loop) and the *)
(* presence handler (Handler::presence_update) of src/main.rs, running as  *)
(* tokio tasks over four tokio::sync::Mutex locks.                         *)
(*                                                                         *)
(* Tasks run on the multi-threaded runtime of #[tokio::main]: a task is    *)
(* either suspended at an .await or running between two of them.           *)
(* JoinHandle::abort only marks the task: a suspended task is dropped      *)
(* without being polled again, a running task goes on to its next .await   *)
(* that has to wait and is dropped there.                                  *)
(***************************************************************************)
EXTENDS Integers, Sequences, FiniteSets, TLC

\* ------------------------------------------------------------------ bounds
\* number of gateway ready/reconnected signals (each spawns one generation
\* of the two pollers)
MaxReady == 2
Gens == 1..MaxReady

\* the presence_update calls in progress: the gateway delivers the presence
\* events of the one watched user serially, one call at a time
PSlots == {"presence_update"}

\* ------------------------------------------------------------ value domains
None == "None"

\* personastate codes returned by the Steam endpoint in the bounded runs
PersonaStates == {0, 1, 4}
GameNames == {"Terraria"}

\* ------------------------------------------------------------ localization
\* get_string_for_status!: the localized label of a status
get_string_for_status(status) ==
    CASE status = "Offline" -> "offline"
      [] status = "Idle" -> "idle"
      [] status = "Invisible" -> "invisible"
      [] status = "Online" -> "online"
      [] status = "DoNotDisturb" -> "donotdisturb"
      [] OTHER -> "unknown"

\* Option<String>::as_deref().unwrap_or_default()
unwrap_or_default(opt) == IF opt = None THEN "" ELSE opt

\* a message text is the sequence of the pieces format! concatenates
NoText == << >>

\* ------------------------------------------------------------ get_steam_state
\* the PlayerState derived from the first player of a summary response
PlayerStateOf(data) ==
    [status |-> CASE data.personastate = 0 -> "Offline"
                  [] data.personastate = 1 -> "Online"
                  [] data.personastate = 2 -> "DoNotDisturb"
                  [] data.personastate = 3 -> "Idle"
                  [] OTHER -> "Offline",
     game |-> data.gameextrainfo]

SteamUserData == [personastate : PersonaStates, gameextrainfo : GameNames \cup {None}]

\* what reqwest::get + serde_json::from_str can give: a transport or parse
\* error, or the list of players
SteamResponses ==
    {[ok |-> FALSE, players |-> << >>], [ok |-> TRUE, players |-> << >>]}
        \cup {[ok |-> TRUE, players |-> <<d>>] : d \in SteamUserData}

\* the Err(..) results of get_steam_state, request_matches and set_heroes
ErrState == [status |-> "Err", game |-> None]

\* the empty list of players taken for a player who is offline, instead of
\* the error of lines 148-150
get_steam_state_or_offline(response) ==
    IF ~response.ok THEN ErrState
    ELSE IF Len(response.players) = 0 THEN [status |-> "Offline", game |-> "Terraria"]
    ELSE PlayerStateOf(Head(response.players))

\* lines 142-164
get_steam_state(response) ==
    IF ~response.ok THEN ErrState
    ELSE IF Len(response.players) = 0 THEN ErrState
    ELSE PlayerStateOf(Head(response.players))

\* ------------------------------------------------------------ Steam decision
\* line 197
game_state_eq(cur, state) == cur.game = state.game \/ state.game = None

\* the two tests of lines 198-199 joined by && instead of ||
no_new_status_and(cur, state) == cur.status # "Offline" /\ state.status = "Offline"

\* lines 198-199
no_new_status(cur, state) == cur.status # "Offline" \/ state.status = "Offline"

\* lines 203-221
SteamContent(cur, state) ==
    IF game_state_eq(cur, state)
    THEN <<"target_name", " ", get_string_for_status(state.status), " ", "on_steam">>
    ELSE <<"target_name", " ", get_string_for_status(state.status), " ", "plays", " ",
           unwrap_or_default(state.game), " ", "on_steam">>

\* the status assignment of lines 223-225 left out
SteamCommitGameOnly(cur, state) == [game |-> state.game, status |-> cur.status]

\* lines 223-225 taking a read of Offline for the tracked status
SteamCommitReadOffline(cur, state) ==
    [game |-> state.game,
     status |-> IF state.status = "Offline" THEN state.status ELSE cur.status]

\* the status assignment of lines 223-225 without its condition
SteamCommitStatusAlways(cur, state) == [game |-> state.game, status |-> state.status]

\* lines 222-225
SteamCommit(cur, state) ==
    [game |-> state.game,
     status |-> IF ~no_new_status(cur, state) THEN state.status ELSE cur.status]

\* ------------------------------------------------------------ presence events
\* Presence.client_status: absent, or the per-device statuses
NoClientStatus == [present |-> FALSE, mobile |-> None, web |-> None]
OnMobile(status) == [present |-> TRUE, mobile |-> status, web |-> None]

\* Activity.assets: absent, or the two captions
NoAssets == [present |-> FALSE, large_text |-> None, small_text |-> None]

PlayingTerraria ==
    [kind |-> "Playing", name |-> "Terraria", details |-> "Hardmode",
     assets |-> [present |-> TRUE, large_text |-> "World", small_text |-> None]]
CustomStatus ==
    [kind |-> "Custom", name |-> "Custom Status", details |-> None, assets |-> NoAssets]

\* the presence events of the target guild and user in the bounded runs:
\* both statuses with no activity, a per-device status, the same game under
\* both statuses, and a custom status without text (the handler looks at the
\* first activity only)
Presences ==
    {[status |-> "Offline", client_status |-> NoClientStatus, activities |-> << >>],
     [status |-> "Online", client_status |-> NoClientStatus, activities |-> << >>],
     [status |-> "Online", client_status |-> OnMobile("Idle"), activities |-> << >>],
     [status |-> "Online", client_status |-> NoClientStatus,
      activities |-> <<PlayingTerraria>>],
     [status |-> "Offline", client_status |-> NoClientStatus,
      activities |-> <<PlayingTerraria>>],
     [status |-> "Online", client_status |-> NoClientStatus,
      activities |-> <<CustomStatus>>]}

\* lines 353-366: the status label and the device label
StatusLabel(new_data) ==
    IF ~new_data.client_status.present THEN get_string_for_status(new_data.status)
    ELSE IF new_data.client_status.mobile # None
         THEN get_string_for_status(new_data.client_status.mobile)
    ELSE IF new_data.client_status.web # None
         THEN get_string_for_status(new_data.client_status.web)
    ELSE get_string_for_status(new_data.status)

DeviceLabel(new_data) ==
    IF ~new_data.client_status.present THEN ""
    ELSE IF new_data.client_status.mobile # None THEN "using_phone"
    ELSE IF new_data.client_status.web # None THEN "using_browser"
    ELSE "using_computer"

\* lines 376-384
activity_name(activity) ==
    IF activity.kind = "Custom" THEN activity.details ELSE activity.name

activity_details(activity) ==
    IF activity.kind = "Custom" THEN None ELSE activity.details

\* lines 390-398
large_text(activity) ==
    IF activity.assets.present THEN activity.assets.large_text ELSE None

small_text(activity) ==
    IF activity.assets.present THEN activity.assets.small_text ELSE None

\* line 371 and lines 400-410
PresenceContent(new_data) ==
    IF Len(new_data.activities) = 0
    THEN <<"target_name", " ", StatusLabel(new_data), DeviceLabel(new_data)>>
    ELSE LET activity == Head(new_data.activities)
         IN  <<"target_name", " ", StatusLabel(new_data), DeviceLabel(new_data), " ",
               "plays", " ", unwrap_or_default(activity_name(activity)), "\n",
               unwrap_or_default(activity_details(activity)), "\n",
               unwrap_or_default(large_text(activity)), "\n",
               unwrap_or_default(small_text(activity))>>

\* line 386 comparing the name of the activity instead of the candidate
SameGameByName(new_data, state) ==
    /\ Len(new_data.activities) > 0
    /\ Head(new_data.activities).name = state.game

\* line 386: the handler returns without sending
SameGame(new_data, state) ==
    /\ Len(new_data.activities) > 0
    /\ activity_name(Head(new_data.activities)) = state.game

\* lines 369-372, 411: the PlayerState a presence event leaves behind
PresenceCommit(new_data, state) ==
    [status |-> new_data.status,
     game |-> IF Len(new_data.activities) = 0 THEN None
              ELSE IF SameGame(new_data, state) THEN state.game
              ELSE activity_name(Head(new_data.activities))]

\* ------------------------------------------------------------ matches
MatchIds == {0, 1, 2}
PlayerSlots == {2, 4, 5, 7}
HeroIds == {1, 3}

\* the hero catalog the heroes endpoint serves: hero 3 is not in it
HeroCatalog == [h \in {1, 2} |-> IF h = 1 THEN "Pudge" ELSE "Axe"]
NoHeroes == << >>

MatchData ==
    [match_id : MatchIds, player_slot : PlayerSlots, radiant_win : BOOLEAN,
     hero_id : HeroIds, duration : {754}, kills : {3}, deaths : {1}, assists : {4}]

\* request_matches: an error, or the list of recent matches, newest first
MatchResponses ==
    {[ok |-> FALSE, items |-> << >>], [ok |-> TRUE, items |-> << >>]}
        \cup {[ok |-> TRUE, items |-> <<m>>] : m \in MatchData}

\* the heroes endpoint: an error, or the catalog
HeroResponses == {[ok |-> FALSE, heroes |-> NoHeroes], [ok |-> TRUE, heroes |-> HeroCatalog]}

\* the test of line 274 left out
never_same_match(last, cursor) == FALSE

\* line 274: the newest match is the one the cursor holds
same_match(last, cursor) == last.match_id = cursor

\* line 284 with <= in place of <
MatchResultOffByOne(last) ==
    IF last.radiant_win = (last.player_slot <= 5) THEN "won" ELSE "lost"

\* lines 284-288
MatchResult(last) ==
    IF last.radiant_win = (last.player_slot < 5) THEN "won" ELSE "lost"

\* lines 290-303
MatchContent(last, heroes) ==
    <<"target_name", " ", MatchResult(last), ". ", "played_on", " ", heroes[last.hero_id],
      " ", "with_score", " ", last.kills, ", ", last.deaths, ", ", last.assists, ". ",
      "match_duration", " ", last.duration \div 60, " ", "minutes", ".">>

\* ------------------------------------------------------------ state
VARIABLES
    dotawatcher_thread,   \* Handler.dotawatcher_thread: 0 (None) or the generation stored
    steamwatcher_thread,  \* Handler.steamwatcher_thread: likewise
    lock,                 \* holder of each of the four tokio Mutexes
    current_state,        \* Handler.current_state: the shared PlayerState
    last_message,         \* Handler.last_message
    HEROES,               \* the OnceLock hero catalog
    rpc,                  \* position of each Handler::ready call
    spc, scancel, sstate, scontent,   \* steamwatcher_loop tasks
    dpc, dcancel, last_match_id, dlast,   \* dotawatcher_loop tasks
    ppc, pcontent,        \* Handler::presence_update calls
    \* history of what was observed, for stating the properties; observe
    \* names the one history that a behaviour records
    observe,
    lastSent, dupSent, prevCand, steamWrote, prepeat, lastPresence,
    lastTick, seed, seedSeen, lastPoll, lastOk, fetchErr

handles == <<dotawatcher_thread, steamwatcher_thread>>
readyVars == <<rpc>>
steamVars == <<spc, scancel, sstate, scontent>>
dotaVars == <<dpc, dcancel, last_match_id, dlast>>
presenceVars == <<ppc, pcontent>>
sharedVars == <<current_state, last_message>>
sentVars == <<lastSent, dupSent>>
runVars == <<prevCand, steamWrote, prepeat, lastPresence>>
tickVars == <<lastTick>>
seedVars == <<seed, seedSeen, lastPoll>>
lastVars == <<lastOk, fetchErr>>
vars == <<handles, lock, sharedVars, HEROES, readyVars, steamVars, dotaVars, presenceVars,
          observe, sentVars, runVars, tickVars, seedVars, lastVars>>

LockNames == {"dotawatcher_thread", "steamwatcher_thread", "current_state", "last_message"}
Free == << >>
ReadyTask(h) == <<"ready", h>>
SteamTask(g) == <<"steam", g>>
PresenceTask(p) == <<"presence", p>>

\* main, lines 489-497
InitialState == [status |-> "Offline", game |-> None]

NoState == [status |-> "Offline", game |-> None]
NoMatch ==
    [match_id |-> 0, player_slot |-> 2, radiant_win |-> FALSE, hero_id |-> 1,
     duration |-> 754, kills |-> 3, deaths |-> 1, assists |-> 4]
NoEvent == "NoEvent"
NoTick ==
    [valid |-> FALSE, read |-> NoState, sent |-> FALSE, peers |-> {},
     same |-> FALSE, twin |-> FALSE]
NoPoll ==
    [valid |-> FALSE, seeded |-> FALSE, id |-> 0, differs |-> FALSE, announced |-> FALSE]
NoRun == [valid |-> FALSE, noAct |-> FALSE, repeat |-> FALSE, passed |-> FALSE]

Observers == {"none", "sent", "run", "tick", "pair", "seed", "cursor", "last", "fetch"}

Init ==
    /\ observe \in Observers
    /\ dotawatcher_thread = 0
    /\ steamwatcher_thread = 0
    /\ lock = [l \in LockNames |-> Free]
    /\ current_state = InitialState
    /\ last_message = NoText
    /\ HEROES = NoHeroes
    /\ rpc = [h \in Gens |-> "idle"]
    /\ spc = [g \in Gens |-> "none"]
    /\ scancel = [g \in Gens |-> FALSE]
    /\ sstate = [g \in Gens |-> NoState]
    /\ scontent = [g \in Gens |-> NoText]
    /\ dpc = [g \in Gens |-> "none"]
    /\ dcancel = [g \in Gens |-> FALSE]
    /\ last_match_id = [g \in Gens |-> 0]
    /\ dlast = [g \in Gens |-> NoMatch]
    /\ ppc = [p \in PSlots |-> "idle"]
    /\ pcontent = [p \in PSlots |-> NoText]
    /\ lastSent = NoText
    /\ dupSent = FALSE
    /\ prevCand = NoEvent
    /\ steamWrote = FALSE
    /\ prepeat = [p \in PSlots |-> FALSE]
    /\ lastPresence = NoRun
    /\ lastTick = NoTick
    /\ seed = [g \in Gens |-> {}]
    /\ seedSeen = [g \in Gens |-> 0]
    /\ lastPoll = [g \in Gens |-> NoPoll]
    /\ lastOk = NoText
    /\ fetchErr = "none"

\* whether the step taken is a fetch that failed, and which
Fetched(failed, kind) ==
    fetchErr' = IF observe # "fetch" THEN fetchErr ELSE IF failed THEN kind ELSE "none"

\* a message reached the output channel
Delivered(text) ==
    IF observe = "sent"
    THEN /\ lastSent' = text
         /\ dupSent' = (text = lastSent)
    ELSE UNCHANGED sentVars

\* ------------------------------------------------------------ Handler::ready
\* the stored handle overwritten without the abort
no_abort(cancel, thread) == cancel

\* JoinHandle::abort on the stored handle (lines 438-440, 442-444)
abort(cancel, thread) ==
    IF thread = 0 THEN cancel ELSE [cancel EXCEPT ![thread] = TRUE]

\* a task dropped while it holds the guard of PlayerState
SteamSuspendedHolding == {"tick", "fetch", "send", "cs"}

\* the .await points a loop can be suspended at without waiting for a lock
SteamSuspended == {"tick", "fetch", "send"}
DotaSuspended == {"tick", "heroes", "matches", "send"}

\* an aborted task that is suspended is dropped: it is never polled again
Dropped(pc, cancel, suspended) ==
    [g \in Gens |-> IF cancel[g] /\ pc[g] \in suspended THEN "dead" ELSE pc[g]]

\* a send_message that is dropped in flight may or may not have reached the
\* channel
MayDeliver(text) ==
    \E ok \in BOOLEAN : IF ok THEN Delivered(text) ELSE UNCHANGED sentVars

\* the gateway delivers a ready signal: the call asks for the lock of line
\* 437; the handlers are numbered in the order of their requests
ReadySignal(h) ==
    /\ rpc[h] = "idle"
    /\ IF h = 1 THEN TRUE ELSE rpc[h - 1] # "idle"
    /\ rpc' = [rpc EXCEPT ![h] = "lockDota"]
    /\ Fetched(FALSE, "none")
    /\ UNCHANGED <<handles, lock, sharedVars, HEROES, steamVars, dotaVars, presenceVars,
                   observe, sentVars, runVars, tickVars, seedVars, lastOk>>

\* lines 437-440; tokio's Mutex grants the lock in the order of the requests
ReadyLockDota(h) ==
    /\ rpc[h] = "lockDota"
    /\ IF h = 1 THEN TRUE ELSE rpc[h - 1] \notin {"idle", "lockDota"}
    /\ lock["dotawatcher_thread"] = Free
    /\ lock' = [lock EXCEPT !["dotawatcher_thread"] = ReadyTask(h)]
    /\ dcancel' = abort(dcancel, dotawatcher_thread)
    /\ dpc' = Dropped(dpc, dcancel', DotaSuspended)
    /\ last_match_id' = [g \in Gens |-> IF dpc'[g] = "dead" THEN 0 ELSE last_match_id[g]]
    /\ dlast' = [g \in Gens |-> IF dpc'[g] = "dead" THEN NoMatch ELSE dlast[g]]
    /\ seed' = [g \in Gens |-> IF dpc'[g] = "dead" THEN {} ELSE seed[g]]
    /\ seedSeen' = [g \in Gens |-> IF dpc'[g] = "dead" THEN 0 ELSE seedSeen[g]]
    /\ UNCHANGED lastPoll
    /\ IF \E g \in Gens : dpc[g] = "send" /\ dpc'[g] = "dead"
       THEN MayDeliver(MatchContent(dlast[dotawatcher_thread], HEROES))
       ELSE UNCHANGED sentVars
    /\ rpc' = [rpc EXCEPT ![h] = "lockSteam"]
    /\ Fetched(FALSE, "none")
    /\ UNCHANGED <<handles, sharedVars, HEROES, steamVars, presenceVars, observe,
                   runVars, tickVars, lastOk>>

\* lines 441-444
ReadyLockSteam(h) ==
    /\ rpc[h] = "lockSteam"
    /\ lock["steamwatcher_thread"] = Free
    /\ lock' = [lock EXCEPT !["steamwatcher_thread"] = ReadyTask(h)]
    /\ scancel' = abort(scancel, steamwatcher_thread)
    /\ spc' = Dropped(spc, scancel', SteamSuspended)
    /\ sstate' = [g \in Gens |-> IF spc'[g] = "dead" THEN NoState ELSE sstate[g]]
    /\ scontent' = [g \in Gens |-> IF spc'[g] = "dead" THEN NoText ELSE scontent[g]]
    /\ IF \E g \in Gens : spc[g] = "send" /\ spc'[g] = "dead"
       THEN MayDeliver(scontent[steamwatcher_thread])
       ELSE UNCHANGED sentVars
    /\ rpc' = [rpc EXCEPT ![h] = "spawn"]
    /\ Fetched(FALSE, "none")
    /\ UNCHANGED <<handles, sharedVars, HEROES, dotaVars, presenceVars, observe,
                   runVars, tickVars, seedVars, lastOk>>

\* the cursor of the instance before carried over to the new one
inherited_cursor(h) == IF h = 1 THEN 0 ELSE lastPoll[h - 1].id

\* line 244: the cursor a new instance of dotawatcher_loop starts with
new_cursor(h) == 0

\* lines 446-456: both loops are spawned and stored, then the two guards drop
ReadySpawn(h) ==
    /\ rpc[h] = "spawn"
    /\ dpc' = [dpc EXCEPT ![h] = "tick"]
    /\ last_match_id' = [last_match_id EXCEPT ![h] = new_cursor(h)]
    /\ dotawatcher_thread' = h
    /\ spc' = [spc EXCEPT ![h] = "tick"]
    /\ steamwatcher_thread' = h
    /\ lock' = [lock EXCEPT !["dotawatcher_thread"] = Free, !["steamwatcher_thread"] = Free]
    /\ rpc' = [rpc EXCEPT ![h] = "done"]
    /\ Fetched(FALSE, "none")
    /\ UNCHANGED <<sharedVars, HEROES, scancel, sstate, scontent, dcancel,
                   dlast, presenceVars, observe, sentVars, runVars, tickVars, seedVars, lastOk>>

\* ------------------------------------------------------------ steamwatcher_loop
\* a lock() that would return although another task holds the guard
lock_granted_always(name) == TRUE

\* Mutex::lock().await returns once no task holds the guard
lock_granted(name) == lock[name] = Free

\* line 193: interval.tick() completes
SteamTick(g) ==
    /\ spc[g] = "tick"
    /\ ~scancel[g]
    /\ spc' = [spc EXCEPT ![g] = "fetch"]
    /\ Fetched(FALSE, "none")
    /\ UNCHANGED <<handles, lock, sharedVars, HEROES, readyVars, scancel, sstate, scontent,
                   dotaVars, presenceVars, observe, sentVars, runVars, tickVars, seedVars, lastOk>>

\* lines 194-195: the fetch completes; on Err the loop goes to its next tick,
\* on Ok the task runs on with the state in hand
SteamFetch(g) ==
    /\ spc[g] = "fetch"
    /\ ~scancel[g]
    /\ \E response \in SteamResponses :
         LET state == get_steam_state(response)
         IN  /\ Fetched(~response.ok \/ Len(response.players) = 0, "steam")
             /\ IF state = ErrState
                THEN /\ spc' = [spc EXCEPT ![g] = "tick"]
                     /\ UNCHANGED sstate
                ELSE /\ spc' = [spc EXCEPT ![g] = "got"]
                     /\ sstate' = [sstate EXCEPT ![g] = state]
    /\ UNCHANGED <<handles, lock, sharedVars, HEROES, readyVars, scancel, scontent,
                   dotaVars, presenceVars, observe, sentVars, runVars, tickVars, seedVars, lastOk>>

\* line 196: the running task takes the PlayerState lock
SteamLock(g) ==
    /\ spc[g] = "got"
    /\ lock_granted("current_state")
    /\ lock' = [lock EXCEPT !["current_state"] = SteamTask(g)]
    /\ spc' = [spc EXCEPT ![g] = "cs"]
    /\ Fetched(FALSE, "none")
    /\ UNCHANGED <<handles, sharedVars, HEROES, readyVars, scancel, sstate, scontent,
                   dotaVars, presenceVars, observe, sentVars, runVars, tickVars, seedVars, lastOk>>

\* the drop of line 226 left out: the guard lives on into the send
keep_cur_state(g) == SteamTask(g)

\* line 226 (and the guard going out of scope at line 201)
drop_cur_state(g) == Free

\* lines 197-226, from the comparison to the drop of the guard; an aborted
\* task that was running gets this far and is dropped at its next .await
\* (the timer of line 193, or the send of line 234)
SteamDecide(g) ==
    /\ spc[g] = "cs"
    /\ lock["current_state"] = SteamTask(g)
    /\ LET skip == game_state_eq(current_state, sstate[g])
                     /\ no_new_status(current_state, sstate[g])
       IN  /\ IF skip
              THEN /\ spc' = [spc EXCEPT ![g] = IF scancel[g] THEN "dead" ELSE "tick"]
                   /\ UNCHANGED <<current_state, scontent, steamWrote, sentVars>>
              ELSE /\ current_state' = SteamCommit(current_state, sstate[g])
                   /\ steamWrote' = (observe = "run")
                   /\ IF scancel[g]
                      THEN /\ spc' = [spc EXCEPT ![g] = "dead"]
                           /\ UNCHANGED scontent
                           /\ MayDeliver(SteamContent(current_state, sstate[g]))
                      ELSE /\ spc' = [spc EXCEPT ![g] = "send"]
                           /\ scontent' = [scontent EXCEPT
                                             ![g] = SteamContent(current_state, sstate[g])]
                           /\ UNCHANGED sentVars
           /\ IF observe = "tick"
              THEN lastTick' = [NoTick EXCEPT
                                  !.valid = TRUE, !.read = sstate[g], !.sent = ~skip,
                                  !.same = lastTick.valid /\ lastTick.read = sstate[g]]
              ELSE IF observe = "pair"
              THEN lastTick' = [NoTick EXCEPT
                                  !.valid = TRUE, !.read = sstate[g], !.sent = ~skip,
                                  !.peers = {o \in Gens \ {g} : spc[o] = "got"},
                                  !.twin = /\ lastTick.valid
                                           /\ lastTick.read = sstate[g]
                                           /\ g \in lastTick.peers
                                           /\ lastTick.sent]
              ELSE UNCHANGED lastTick
    /\ sstate' = [sstate EXCEPT ![g] = NoState]
    /\ lock' = [lock EXCEPT !["current_state"] = drop_cur_state(g)]
    /\ Fetched(FALSE, "none")
    /\ UNCHANGED <<handles, last_message, HEROES, readyVars, scancel, dotaVars, presenceVars,
                   prevCand, prepeat, lastPresence, seedVars, lastOk, observe>>

\* lines 228-237: send_message completes, with or without an error
SteamSend(g) ==
    /\ spc[g] = "send"
    /\ ~scancel[g]
    /\ \E ok \in BOOLEAN :
         IF ok THEN Delivered(scontent[g]) ELSE UNCHANGED sentVars
    /\ spc' = [spc EXCEPT ![g] = "tick"]
    /\ scontent' = [scontent EXCEPT ![g] = NoText]
    /\ Fetched(FALSE, "none")
    /\ UNCHANGED <<handles, lock, sharedVars, HEROES, readyVars, scancel, sstate,
                   dotaVars, presenceVars, runVars, tickVars, seedVars, lastOk, observe>>

\* line 196: an aborted task that was running finds the lock held by another
\* task, is suspended and dropped
SteamDrop(g) ==
    /\ scancel[g]
    /\ spc[g] = "got"
    /\ lock["current_state"] # Free
    /\ spc' = [spc EXCEPT ![g] = "dead"]
    /\ sstate' = [sstate EXCEPT ![g] = NoState]
    /\ scontent' = [scontent EXCEPT ![g] = NoText]
    /\ Fetched(FALSE, "none")
    /\ UNCHANGED <<handles, lock, sharedVars, HEROES, readyVars, scancel,
                   dotaVars, presenceVars, observe, sentVars, runVars, tickVars, seedVars, lastOk>>

\* ------------------------------------------------------------ presence_update
\* the game field of a presence event: the candidate game name
Candidate(e) ==
    IF Len(e.activities) = 0 THEN None ELSE activity_name(Head(e.activities))

\* lines 339-366: the gateway delivers a presence event; events of another
\* guild or user are ignored, the others reach the lock of line 368
PresenceEvent(p) ==
    /\ ppc[p] = "idle"
    /\ \E for_target \in BOOLEAN :
         IF ~for_target
         THEN UNCHANGED ppc
         ELSE ppc' = [ppc EXCEPT ![p] = "lockState"]
    /\ Fetched(FALSE, "none")
    /\ UNCHANGED <<handles, lock, sharedVars, HEROES, readyVars, steamVars, dotaVars,
                   pcontent, observe, sentVars, runVars, tickVars, seedVars, lastOk>>

\* line 368
PresenceLock(p) ==
    /\ ppc[p] = "lockState"
    /\ lock_granted("current_state")
    /\ lock' = [lock EXCEPT !["current_state"] = PresenceTask(p)]
    /\ ppc' = [ppc EXCEPT ![p] = "cs"]
    /\ Fetched(FALSE, "none")
    /\ UNCHANGED <<handles, sharedVars, HEROES, readyVars, steamVars, dotaVars,
                   pcontent, observe, sentVars, runVars, tickVars, seedVars, lastOk>>

\* lines 369-413: the status is written, then either the handler returns
\* (same game) or the content is composed and the game written; the guard
\* is dropped either way. No other task sees the fields of the event, so
\* they are drawn here, where the handler first acts on them.
PresenceBody(p) ==
    /\ ppc[p] = "cs"
    /\ lock["current_state"] = PresenceTask(p)
    /\ \E e \in Presences :
       LET same == SameGame(e, current_state)
           repeat == prevCand = Candidate(e) /\ ~steamWrote
       IN  /\ current_state' = PresenceCommit(e, current_state)
           /\ IF same
              THEN /\ ppc' = [ppc EXCEPT ![p] = "idle"]
                   /\ UNCHANGED pcontent
                   /\ prepeat' = [prepeat EXCEPT ![p] = FALSE]
              ELSE /\ ppc' = [ppc EXCEPT ![p] = "lockLast"]
                   /\ pcontent' = [pcontent EXCEPT ![p] = PresenceContent(e)]
                   /\ prepeat' = [prepeat EXCEPT ![p] = repeat /\ observe = "run"]
           /\ IF observe = "run"
              THEN /\ lastPresence' = [valid |-> TRUE, noAct |-> Len(e.activities) = 0,
                                       repeat |-> repeat, passed |-> ~same]
                   /\ prevCand' = Candidate(e)
              ELSE UNCHANGED <<lastPresence, prevCand>>
    /\ steamWrote' = FALSE
    /\ lastTick' = NoTick
    /\ lock' = [lock EXCEPT !["current_state"] = Free]
    /\ Fetched(FALSE, "none")
    /\ UNCHANGED <<handles, last_message, HEROES, readyVars, steamVars, dotaVars,
                   sentVars, seedVars, lastOk, observe>>

\* lines 415-418: the last_message lock is taken and the content compared
PresenceCompare(p) ==
    /\ ppc[p] = "lockLast"
    /\ lock["last_message"] = Free
    /\ IF pcontent[p] = last_message
       THEN /\ ppc' = [ppc EXCEPT ![p] = "idle"]
            /\ pcontent' = [pcontent EXCEPT ![p] = NoText]
            /\ prepeat' = [prepeat EXCEPT ![p] = FALSE]
            /\ UNCHANGED lock
       ELSE /\ ppc' = [ppc EXCEPT ![p] = "send"]
            /\ lock' = [lock EXCEPT !["last_message"] = PresenceTask(p)]
            /\ UNCHANGED <<pcontent, prepeat>>
    /\ Fetched(FALSE, "none")
    /\ UNCHANGED <<handles, sharedVars, HEROES, readyVars, steamVars, dotaVars,
                   sentVars, prevCand, steamWrote, lastPresence, tickVars, seedVars, lastOk, observe>>

\* line 428: the content composed replaces the last message
store_content(last, content) == content

\* lines 420-429: send_message completes, with or without an error, the
\* content is stored and the guard dropped
PresenceSend(p) ==
    /\ ppc[p] = "send"
    /\ lock["last_message"] = PresenceTask(p)
    /\ \E ok \in BOOLEAN :
         /\ IF ok THEN Delivered(pcontent[p]) ELSE UNCHANGED sentVars
         /\ lastOk' = IF ok /\ observe = "last" THEN pcontent[p] ELSE lastOk
    /\ last_message' = store_content(last_message, pcontent[p])
    /\ lock' = [lock EXCEPT !["last_message"] = Free]
    /\ ppc' = [ppc EXCEPT ![p] = "idle"]
    /\ pcontent' = [pcontent EXCEPT ![p] = NoText]
    /\ prepeat' = [prepeat EXCEPT ![p] = FALSE]
    /\ Fetched(FALSE, "none")
    /\ UNCHANGED <<handles, current_state, HEROES, readyVars, steamVars, dotaVars,
                   prevCand, steamWrote, lastPresence, tickVars, seedVars, observe>>

\* ------------------------------------------------------------ dotawatcher_loop
\* lines 251-258: interval.tick() completes; the catalog is fetched if absent
DotaTick(g) ==
    /\ dpc[g] = "tick"
    /\ ~dcancel[g]
    /\ dpc' = [dpc EXCEPT ![g] = IF HEROES = NoHeroes THEN "heroes" ELSE "matches"]
    /\ Fetched(FALSE, "none")
    /\ UNCHANGED <<handles, lock, sharedVars, HEROES, readyVars, steamVars, dcancel,
                   last_match_id, dlast, presenceVars, observe, sentVars, runVars, tickVars, seedVars, lastOk>>

\* set_heroes, lines 166-180, and lines 254-257
DotaHeroes(g) ==
    /\ dpc[g] = "heroes"
    /\ ~dcancel[g]
    /\ \E response \in HeroResponses :
         /\ Fetched(~response.ok, "heroes")
         /\ IF response.ok /\ HEROES = NoHeroes
            THEN /\ HEROES' = response.heroes
                 /\ dpc' = [dpc EXCEPT ![g] = "matches"]
            ELSE /\ UNCHANGED HEROES
                 /\ dpc' = [dpc EXCEPT ![g] = "tick"]
    /\ UNCHANGED <<handles, lock, sharedVars, readyVars, steamVars, dcancel,
                   last_match_id, dlast, presenceVars, observe, sentVars, runVars, tickVars, seedVars, lastOk>>

\* lines 260-303: the match list arrives and the newest entry is examined
DotaMatches(g) ==
    /\ dpc[g] = "matches"
    /\ ~dcancel[g]
    /\ \E response \in MatchResponses :
       /\ Fetched(~response.ok \/ Len(response.items) = 0,
                  IF response.ok THEN "empty" ELSE "matches")
       /\ IF ~response.ok \/ Len(response.items) = 0
         THEN /\ dpc' = [dpc EXCEPT ![g] = "tick"]
              /\ UNCHANGED <<last_match_id, dlast, seedVars>>
         ELSE LET last == Head(response.items)
              IN  /\ IF observe = "seed"
                     THEN /\ seed' = [seed EXCEPT
                                        ![g] = IF seed[g] = {} THEN {last.match_id} ELSE @]
                          /\ seedSeen' = [seedSeen EXCEPT
                                            ![g] = IF seed[g] = {} THEN 1
                                                   ELSE IF @ > 0 /\ last.match_id \in seed[g]
                                                   THEN 2 ELSE 0]
                     ELSE UNCHANGED <<seed, seedSeen>>
                  /\ IF same_match(last, last_match_id[g])
                     THEN /\ dpc' = [dpc EXCEPT ![g] = "tick"]
                          /\ UNCHANGED <<last_match_id, dlast>>
                     ELSE IF last_match_id[g] = 0
                     THEN /\ last_match_id' = [last_match_id EXCEPT ![g] = last.match_id]
                          /\ dpc' = [dpc EXCEPT ![g] = "tick"]
                          /\ UNCHANGED dlast
                     ELSE /\ last_match_id' = [last_match_id EXCEPT ![g] = last.match_id]
                          /\ IF last.hero_id \in DOMAIN HEROES
                             THEN /\ dpc' = [dpc EXCEPT ![g] = "send"]
                                  /\ dlast' = [dlast EXCEPT ![g] = last]
                             ELSE /\ dpc' = [dpc EXCEPT ![g] = "panicked"]
                                  /\ UNCHANGED dlast
                  /\ IF observe = "cursor"
                     THEN lastPoll' = [lastPoll EXCEPT
                            ![g] = [valid |-> TRUE, seeded |-> lastPoll[g].valid,
                                    id |-> last.match_id,
                                    differs |-> last.match_id # lastPoll[g].id,
                                    announced |-> dpc'[g] \in {"send", "panicked"}]]
                     ELSE UNCHANGED lastPoll
    /\ UNCHANGED <<handles, lock, sharedVars, HEROES, readyVars, steamVars, dcancel,
                   presenceVars, sentVars, runVars, tickVars, lastOk, observe>>

\* lines 304-313: send_message completes, with or without an error
DotaSend(g) ==
    /\ dpc[g] = "send"
    /\ ~dcancel[g]
    /\ \E ok \in BOOLEAN :
         IF ok THEN Delivered(MatchContent(dlast[g], HEROES)) ELSE UNCHANGED sentVars
    /\ dpc' = [dpc EXCEPT ![g] = "tick"]
    /\ dlast' = [dlast EXCEPT ![g] = NoMatch]
    /\ Fetched(FALSE, "none")
    /\ UNCHANGED <<handles, lock, sharedVars, HEROES, readyVars, steamVars, dcancel,
                   last_match_id, presenceVars, runVars, tickVars, seedVars, lastOk, observe>>

\* ------------------------------------------------------------ specification
Ready == \E h \in Gens : ReadySignal(h) \/ ReadyLockDota(h) \/ ReadyLockSteam(h) \/ ReadySpawn(h)

Steam ==
    \E g \in Gens : SteamTick(g) \/ SteamFetch(g) \/ SteamLock(g) \/ SteamDecide(g)
                      \/ SteamSend(g) \/ SteamDrop(g)

Presence ==
    \E p \in PSlots : PresenceEvent(p) \/ PresenceLock(p) \/ PresenceBody(p)
                        \/ PresenceCompare(p) \/ PresenceSend(p)

Dota ==
    \E g \in Gens : DotaTick(g) \/ DotaHeroes(g) \/ DotaMatches(g) \/ DotaSend(g)

Next == Ready \/ Steam \/ Presence \/ Dota

Spec == Init /\ [][Next]_vars

\* the supervisor, the Steam poller and the presence handler
NextState == Ready \/ Steam \/ Presence

InitState == Init /\ observe = "none"

SpecState == InitState /\ [][NextState]_vars

\* the same, recording the messages delivered
InitSent == Init /\ observe = "sent"

SpecSent == InitSent /\ [][NextState]_vars

\* the same, recording the runs of presence events
InitRun == Init /\ observe = "run"

SpecRun == InitRun /\ [][NextState]_vars

\* the same, recording the Steam ticks
InitTick == Init /\ observe = "tick"

SpecTick == InitTick /\ [][NextState]_vars

\* the same, recording the Steam ticks that overlap
InitPair == Init /\ observe = "pair"

SpecPair == InitPair /\ [][NextState]_vars

\* the supervisor and the match poller
NextMatch == Ready \/ Dota

InitMatch == Init /\ observe = "seed"

SpecMatch == InitMatch /\ [][NextMatch]_vars

\* the same, recording the last poll of each match poller
InitCursor == Init /\ observe = "cursor"

SpecCursor == InitCursor /\ [][NextMatch]_vars

\* the supervisor, the Steam poller and the presence handler, recording the
\* text the presence handler last delivered
InitLast == Init /\ observe = "last"

SpecLast == InitLast /\ [][NextState]_vars

\* tokio schedules every task that is ready to run, every send completes,
\* and tokio's Mutex serves its waiters in the order of their requests: a
\* step that stays enabled is taken (the handle locks and the last_message
\* lock, once free, stay free until the waiter takes them), and the
\* PlayerState lock, free again and again, is granted to each waiter
Fairness ==
    /\ \A h \in Gens :
         /\ WF_vars(ReadyLockDota(h))
         /\ WF_vars(ReadyLockSteam(h))
         /\ WF_vars(ReadySpawn(h))
    /\ \A g \in Gens :
         /\ SF_vars(SteamLock(g))
         /\ WF_vars(SteamDecide(g))
         /\ WF_vars(SteamSend(g))
    /\ \A p \in PSlots :
         /\ SF_vars(PresenceLock(p))
         /\ WF_vars(PresenceBody(p))
         /\ WF_vars(PresenceCompare(p))
         /\ WF_vars(PresenceSend(p))

SpecLive == InitState /\ [][NextState]_vars /\ Fairness

\* the supervisor and the two pollers, recording the outcome of the fetches
NextFetch == Ready \/ Steam \/ Dota

InitFetch == Init /\ observe = "fetch"

SpecFetch == InitFetch /\ [][NextFetch]_vars

\* ------------------------------------------------------------ properties
LiveSteam == {g \in Gens : spc[g] \notin {"none", "dead"} /\ ~scancel[g]}
LiveDota == {g \in Gens : dpc[g] \notin {"none", "dead", "panicked"} /\ ~dcancel[g]}

\* C1: at every moment at most one instance of the Steam poller loop and at
\* most one instance of the match poller loop has not been cancelled, and it
\* is the one whose handle is stored
C1_AtMostOneInstance ==
    /\ Cardinality(LiveSteam) <= 1
    /\ Cardinality(LiveDota) <= 1
    /\ LiveSteam \subseteq {steamwatcher_thread}
    /\ LiveDota \subseteq {dotawatcher_thread}

\* a later ready signal has replaced both pollers of the one before it
C1_Witness ==
    \E h \in Gens :
      /\ h > 1
      /\ rpc[h] = "done"
      /\ scancel[h - 1] /\ dcancel[h - 1]
      /\ LiveSteam = {h} /\ LiveDota = {h}

\* C2: a Steam poller whose cancellation has been requested never goes on to
\* write PlayerState: it is never inside the critical section with a fetched
\* state that it is about to commit
C2_CancelledNeverWrites ==
    \A g \in Gens :
      scancel[g] /\ spc[g] = "cs" =>
        game_state_eq(current_state, sstate[g]) /\ no_new_status(current_state, sstate[g])

\* the tasks inside a network call: a fetch or a send_message
SteamInNetwork == {g \in Gens : spc[g] \in {"fetch", "send"}}
PresenceInNetwork == {p \in PSlots : ppc[p] = "send"}

\* C7 as claimed: a task inside a network call holds neither the PlayerState
\* lock nor the last_message lock
C7_NoLockAcrossNetwork ==
    /\ \A g \in SteamInNetwork :
         lock["current_state"] # SteamTask(g) /\ lock["last_message"] # SteamTask(g)
    /\ \A p \in PresenceInNetwork :
         lock["current_state"] # PresenceTask(p) /\ lock["last_message"] # PresenceTask(p)

\* C7 as amended: no task inside a network call holds the PlayerState lock,
\* and no poller holds the last_message lock; the presence handler holds the
\* last_message lock for the whole of its send
C7_OnlyLastMessageHeldInSend ==
    /\ \A g \in SteamInNetwork :
         lock["current_state"] # SteamTask(g) /\ lock["last_message"] # SteamTask(g)
    /\ \A p \in PresenceInNetwork :
         lock["current_state"] # PresenceTask(p) /\ lock["last_message"] = PresenceTask(p)

\* the presence handler and a Steam poller are both inside a send
C7_Witness ==
    /\ \E p \in PSlots : ppc[p] = "send" /\ lock["last_message"] = PresenceTask(p)
    /\ \E g \in Gens : spc[g] = "send"
    /\ lock["current_state"] = Free

\* C3: two messages delivered one directly after the other never have the
\* same text
C3_NoRepeatedText == ~dupSent

\* C4 as claimed: a presence event that carries the same game field as the
\* presence event before it (no Steam write in between) is never sent
C4_OnlyFirstOfRunSends ==
    \A p \in PSlots : ppc[p] = "send" => ~prepeat[p]

\* C4 as amended: a presence event that carries an activity whose name is the
\* game field of the presence event before it (no Steam write in between)
\* returns without sending; only an event without any activity gets past the
\* game check as a repeat
C4_RepeatedActivityNotSent ==
    /\ lastPresence.valid /\ lastPresence.repeat /\ ~lastPresence.noAct
         => ~lastPresence.passed
    /\ \A p \in PSlots :
         ppc[p] \in {"lockLast", "send"} /\ prepeat[p] => lastPresence.noAct

\* an event repeating the activity name of the one before it has returned
C4_Witness ==
    /\ lastPresence.valid /\ lastPresence.repeat /\ ~lastPresence.noAct
    /\ ~lastPresence.passed
    /\ current_state.game = "Terraria"
    /\ \A p \in PSlots : ppc[p] = "idle"

\* C5: of two Steam ticks that overlap and read the same (status, game), with
\* no other write to PlayerState between their critical sections, at most
\* one sends
C5_ConcurrentTicksSendOnce == lastTick.twin => ~lastTick.sent

\* the second of two such ticks has been through its critical section, after
\* the first one sent
C5_Witness == lastTick.valid /\ lastTick.twin /\ ~lastTick.sent

\* C6: the match poller sends nothing before its cursor is seeded, and while
\* the seed match is still the newest entry the cursor holds it and the
\* poller announces nothing
C6_SeedMatchNotAnnounced ==
    \A g \in Gens :
      /\ dpc[g] \in {"send", "panicked"} => seed[g] # {}
      /\ seedSeen[g] > 0 =>
           /\ dpc[g] \notin {"send", "panicked"}
           /\ last_match_id[g] \in seed[g]

\* a poller has polled its seed match a second time and is back at its timer
C6_Witness ==
    \E g \in Gens : seedSeen[g] = 2 /\ dpc[g] = "tick" /\ seed[g] = {1}

\* the step in which Steam poller g leaves its critical section
SteamLeaves(g) == spc[g] = "cs" /\ spc'[g] # "cs"

OnlineTerraria == [status |-> "Online", game |-> "Terraria"]

\* C8: from {Offline, None} a tick that reads {Online, Terraria} sends and
\* leaves PlayerState = {Online, Terraria}; a tick that reads what the Steam
\* tick before it read, with no presence event in between, sends nothing and
\* leaves PlayerState unchanged
C8_TickIdempotent ==
    [][\A g \in Gens :
         SteamLeaves(g) =>
           /\ current_state = InitialState /\ sstate[g] = OnlineTerraria
                => lastTick'.sent /\ current_state' = OnlineTerraria
           /\ lastTick.valid /\ lastTick.read = sstate[g]
                => ~lastTick'.sent /\ current_state' = current_state /\ spc'[g] # "send"]_vars

\* the tick after the one that announced {Online, Terraria} read the same and
\* sent nothing
C8_Witness ==
    /\ lastTick.valid /\ lastTick.same /\ ~lastTick.sent
    /\ lastTick.read = OnlineTerraria
    /\ current_state = OnlineTerraria

\* C9: the announced outcome is "won" exactly when the player's side won:
\* slot below 5 and radiant_win, or slot 5 and up and not radiant_win
C9_Outcome ==
    \A g \in Gens :
      dpc[g] = "send" =>
        LET last == dlast[g]
            result == MatchContent(last, HEROES)[3]
        IN  /\ result \in {"won", "lost"}
            /\ result = "won" <=>
                 \/ last.player_slot < 5 /\ last.radiant_win
                 \/ last.player_slot >= 5 /\ ~last.radiant_win
            /\ last.player_slot = 2 /\ last.radiant_win => result = "won"
            /\ last.player_slot = 7 /\ last.radiant_win => result = "lost"

\* a lost match of slot 7 is being announced
C9_Witness ==
    \E g \in Gens :
      /\ dpc[g] = "send"
      /\ dlast[g].player_slot = 7 /\ dlast[g].radiant_win
      /\ MatchContent(dlast[g], HEROES)[3] = "lost"

\* C10: a Steam tick that reads no game while the tracked game is a name
\* leaves the tracked game as it is
C10_NoGameReadKeepsGame ==
    [][\A g \in Gens :
         SteamLeaves(g) /\ sstate[g].game = None /\ current_state.game # None
           => current_state'.game = current_state.game]_vars

\* C11 as claimed: after a Steam tick that dispatches a notification the
\* tracked status is the status the tick read, and the tracked game is the
\* game it read when that is a name
C11_DispatchCommitsRead ==
    [][\A g \in Gens :
         SteamLeaves(g) /\ spc'[g] = "send" =>
           /\ current_state'.status = sstate[g].status
           /\ sstate[g].game # None => current_state'.game = sstate[g].game]_vars

\* C11 as amended: after a Steam tick that dispatches a notification the
\* tracked game is the game the tick read when that is a name; the tracked
\* status is the status it read if the tracked status was Offline, and is
\* left as it was otherwise, although the text announces the status read
C11_DispatchCommitsGame ==
    [][\A g \in Gens :
         SteamLeaves(g) /\ spc'[g] = "send" =>
           /\ sstate[g].game # None => current_state'.game = sstate[g].game
           /\ current_state.status = "Offline" => current_state'.status = sstate[g].status
           /\ current_state.status # "Offline" => current_state'.status = current_state.status
           /\ scontent'[g][3] = get_string_for_status(sstate[g].status)]_vars

\* a tick has announced "offline plays Terraria" and the tracked status is
\* still Online
C11_Witness ==
    \E g \in Gens :
      /\ spc[g] = "send"
      /\ scontent[g] = <<"target_name", " ", "offline", " ", "plays", " ", "Terraria", " ",
                         "on_steam">>
      /\ current_state = [status |-> "Online", game |-> "Terraria"]

\* C12: once a match poller has had a successful poll with a non-empty
\* list, every later poll whose newest match id differs from the one of the
\* poll before it announces that match
C12_SeededWhateverTheId ==
    \A g \in Gens :
      lastPoll[g].valid /\ lastPoll[g].seeded /\ lastPoll[g].differs
        => lastPoll[g].announced

\* C13: a match whose hero id is not in the hero catalog never ends the match
\* poller: no poller instance is ever terminated by the lookup
C13_MissingHeroNotFatal == \A g \in Gens : dpc[g] # "panicked"

\* C14: last_message is only ever replaced by the text of a message whose
\* send succeeded: it is always the text the presence handler last delivered
C14_FailedSendKeepsLast == last_message = lastOk

\* C15: a step in which a fetch fails (the Steam summary, the hero catalog,
\* the match list, or a match list that is empty) starts no send, leaves
\* PlayerState, last_message and every match cursor as they were, and puts
\* the poller back at its timer
C15_FailedFetchChangesNothing ==
    [][fetchErr' # "none" =>
         /\ UNCHANGED <<current_state, last_message, last_match_id, sentVars>>
         /\ \A g \in Gens :
              /\ spc'[g] = "send" => spc[g] = "send"
              /\ dpc'[g] = "send" => dpc[g] = "send"
              /\ spc'[g] # spc[g] => spc[g] = "fetch" /\ spc'[g] = "tick" /\ ~scancel'[g]
              /\ dpc'[g] # dpc[g] =>
                   dpc[g] \in {"heroes", "matches"} /\ dpc'[g] = "tick" /\ ~dcancel'[g]
         /\ \E g \in Gens : spc'[g] # spc[g] \/ dpc'[g] # dpc[g]]_vars

\* a match poller whose cursor is seeded has just been served an empty match
\* list, while the tracked game is a name
C15_Witness ==
    /\ fetchErr = "empty"
    /\ \E g \in Gens : dpc[g] = "tick" /\ ~dcancel[g] /\ last_match_id[g] = 1
    /\ current_state.game = "Terraria"

\* C16: a presence event that returns at the game comparison, without
\* composing a notification, leaves PlayerState as it was
C16_SameGameWritesNothing ==
    [][\A p \in PSlots :
         ppc[p] = "cs" /\ ppc'[p] = "idle" => current_state' = current_state]_vars

\* the step in which presence handler p leaves its critical section
PresenceLeaves(p) == ppc[p] = "cs" /\ ppc'[p] # "cs"

\* C17: a step that changes the tracked status and is not the step of a
\* presence event is the step of a Steam tick that found the tracked status
\* Offline and read a status that is not Offline, which it wrote; so a read
\* of Offline never replaces a tracked status that is not Offline
C17_SteamStatusOnlyFromOffline ==
    [][current_state'.status # current_state.status /\ (\A p \in PSlots : ~PresenceLeaves(p))
         => \E g \in Gens :
              /\ SteamLeaves(g)
              /\ current_state.status = "Offline"
              /\ sstate[g].status # "Offline"
              /\ current_state'.status = sstate[g].status]_vars

\* a Steam tick read {Offline, Terraria} and announced it, and the tracked
\* status is still Online
C17_Witness ==
    /\ lastTick.valid /\ lastTick.sent
    /\ lastTick.read = [status |-> "Offline", game |-> "Terraria"]
    /\ current_state = [status |-> "Online", game |-> "Terraria"]

\* the tasks between their lock of PlayerState and the drop of its guard
InCriticalSection ==
    {SteamTask(g) : g \in {g \in Gens : spc[g] = "cs"}}
        \cup {PresenceTask(p) : p \in {p \in PSlots : ppc[p] = "cs"}}

\* at most one task is inside, and it is the holder of the lock
OneHolder ==
    /\ Cardinality(InCriticalSection) <= 1
    /\ \A t \in InCriticalSection : lock["current_state"] = t
    /\ InCriticalSection = {} => lock["current_state"] = Free

\* C18: at most one task is inside the critical section of PlayerState, and
\* every write to PlayerState is made by the task that holds the lock, in the
\* step that takes it from its comparison to the drop of the guard; so no
\* other write falls between a task's decision and its own write
C18_DecideAndWriteInOneHold ==
    [][/\ OneHolder /\ OneHolder'
       /\ current_state' # current_state =>
            /\ lock["current_state"] \in InCriticalSection
            /\ lock'["current_state"] = Free
            /\ \/ \E g \in Gens :
                    lock["current_state"] = SteamTask(g) /\ SteamLeaves(g)
               \/ \E p \in PSlots :
                    lock["current_state"] = PresenceTask(p) /\ PresenceLeaves(p)]_vars

\* a Steam poller is inside the critical section, about to write, while the
\* presence handler and another poller wait for the lock
C18_Witness ==
    \E g \in Gens, o \in Gens, p \in PSlots :
      /\ spc[g] = "cs" /\ lock["current_state"] = SteamTask(g)
      /\ ~(game_state_eq(current_state, sstate[g]) /\ no_new_status(current_state, sstate[g]))
      /\ ppc[p] = "lockState"
      /\ o # g /\ spc[o] = "got"

\* who may hold which lock: the ready handler holds the match-poller handle
\* lock from its first lock to its end and the Steam-poller handle lock only
\* together with it; the PlayerState lock is held only inside the critical
\* section, where no lock is requested and no .await is reached; the
\* last_message lock is held only by the presence handler inside its send
LockDiscipline ==
    /\ \A h \in Gens :
         /\ lock["dotawatcher_thread"] = ReadyTask(h) <=> rpc[h] \in {"lockSteam", "spawn"}
         /\ lock["steamwatcher_thread"] = ReadyTask(h) <=> rpc[h] = "spawn"
    /\ lock["steamwatcher_thread"] # Free => lock["dotawatcher_thread"] # Free
    /\ \A g \in Gens : lock["current_state"] = SteamTask(g) <=> spc[g] = "cs"
    /\ \A p \in PSlots :
         /\ lock["current_state"] = PresenceTask(p) <=> ppc[p] = "cs"
         /\ lock["last_message"] = PresenceTask(p) <=> ppc[p] = "send"

\* C19: the locks are held as LockDiscipline says, and every request for a
\* lock is granted in the end (the request of a poller cancelled meanwhile
\* may be dropped instead)
C19_EveryLockGranted ==
    /\ []LockDiscipline
    /\ \A h \in Gens :
         /\ (rpc[h] = "lockDota") ~> (rpc[h] = "lockSteam")
         /\ (rpc[h] = "lockSteam") ~> (rpc[h] = "spawn")
    /\ \A g \in Gens : (spc[g] = "got") ~> (spc[g] \in {"cs", "dead"})
    /\ \A p \in PSlots :
         /\ (ppc[p] = "lockState") ~> (ppc[p] = "cs")
         /\ (ppc[p] = "lockLast") ~> (ppc[p] \in {"send", "idle"})

\* a later ready handler holds the first handle lock and asks for the
\* second, while a poller waits for the PlayerState lock that the presence
\* handler holds
C19_Witness ==
    \E h \in Gens, g \in Gens, p \in PSlots :
      /\ h > 1 /\ rpc[h] = "lockSteam" /\ lock["dotawatcher_thread"] = ReadyTask(h)
      /\ spc[g] = "got"
      /\ lock["current_state"] = PresenceTask(p)

\* C20: every instance of the match poller starts with the cursor unseeded
\* and keeps it so until its first successful poll of a non-empty list, and
\* that poll announces nothing, whatever the instances before it have seen
C20_EachInstanceSeedsItself ==
    \A g \in Gens :
      /\ ~lastPoll[g].valid => last_match_id[g] = 0 /\ dpc[g] \notin {"send", "panicked"}
      /\ lastPoll[g].valid /\ ~lastPoll[g].seeded => ~lastPoll[g].announced

\* a replacement instance has had its first successful poll, of a match that
\* is not the one the cancelled instance saw last, and is back at its timer
\* with its cursor seeded
C20_Witness ==
    \E g \in Gens :
      /\ g > 1 /\ dcancel[g - 1]
      /\ lastPoll[g - 1].valid /\ lastPoll[g - 1].id = 1
      /\ lastPoll[g].valid /\ ~lastPoll[g].seeded /\ lastPoll[g].id = 2
      /\ dpc[g] = "tick" /\ last_match_id[g] = 2

====
